---- MODULE Spec2Model ----
(***************************************************************************)
(* Model of the shared/weak smart pointers of shared.h and weak.h:         *)
(* IControlBlock with its two variants, SharedPtr<T>, WeakPtr<T> and       *)
(* EnableSharedFromThis<T>.                                                *)
(*                                                                         *)
(* The template parameter T is fixed at Init and is one of three client    *)
(* types:                                                                  *)
(*   "Plain"  struct T {};                                                 *)
(*   "Node"   struct T { SharedPtr<T> next; WeakPtr<T> prev; };            *)
(*   "Esft"   struct T : EnableSharedFromThis<T> {};                       *)
(* Every handle of a behaviour is a SharedPtr<T> or a WeakPtr<T>.          *)
(*                                                                         *)
(* IntrusivePtr<T> of intrusive.h and UniquePtr<T, Deleter> of unique.h    *)
(* have their own state (ip, up) and their own specifications,             *)
(* SpecIntrusive and SpecUnique, at the end of the module.                 *)
(***************************************************************************)
EXTENDS Integers, FiniteSets, Sequences, TLC

\* ------------------------------------------------------------------ bounds
MaxBlocks == 2      \* control blocks (and managed objects) ever allocated
NumShared == 2      \* SharedPtr variables of the client
NumWeak == 1        \* WeakPtr variables of the client
CounterMod == 8     \* size_t counters are kept modulo this (stands for 2^64)
GhostCap == 2       \* the Dispose/Destroy invocation counts saturate here
NumIntr == 3        \* IntrusivePtr variables of the client
MaxCounted == 2     \* intrusively counted objects ever allocated
NumUnique == 2      \* UniquePtr variables of the client
MaxOwned == 3       \* objects ever allocated for UniquePtr

Blocks == 1..MaxBlocks
NullPtr == 0                  \* nullptr, as a raw pointer and as a block pointer
Objects == 1..MaxBlocks       \* object k is the one allocated for block k
AliasObj == MaxBlocks + 1     \* a T that no control block manages
Types == {"Plain", "Node", "Esft"}

VARIABLES
    T,        \* the client type the templates are instantiated with
    blk,      \* control blocks: allocation state, variant, counters
    obj,      \* managed objects: "none", "alive" or "dead" (destructor ran)
    sp,       \* the client's SharedPtr variables: [ptr, cb]
    spLive,   \* which of them are constructed and not yet destroyed
    wp,       \* the client's WeakPtr variables: [ptr, cb]
    wpLive,
    next,     \* member SharedPtr<T> next of each object (T = "Node")
    prev,     \* member WeakPtr<T> prev of each object (T = "Node")
    wthis,    \* EnableSharedFromThis<T>::weak_this_ of each object (T = "Esft")
    uaf,      \* freed storage (a destroyed block, a dead object) was accessed
    crashed,  \* a null pointer was dereferenced: the process is gone
    thrown,   \* the last operation threw BadWeakPtr
    ip,       \* the IntrusivePtr variables and the objects they count
    up        \* the UniquePtr variables, the heap and the deletion log

vars == <<T, blk, obj, sp, spLive, wp, wpLive, next, prev, wthis, uaf, crashed, thrown,
          ip, up>>

\* The state of the SharedPtr/WeakPtr client alone.
sharedVars ==
    <<T, blk, obj, sp, spLive, wp, wpLive, next, prev, wthis, uaf, crashed, thrown>>

\* ------------------------------------------------------------------ state
EmptyH == [ptr |-> NullPtr, cb |-> NullPtr]

NoBlock ==
    [state |-> "free", kind |-> "none", ptr |-> NullPtr, strong |-> 0, weak |-> 0,
     disposeCnt |-> 0, disposeDone |-> FALSE, destroyCnt |-> 0, destroyOk |-> TRUE,
     late |-> FALSE]

\* The program state as one record, so that nested calls compose.
Cur ==
    [T |-> T, blk |-> blk, obj |-> obj, sp |-> sp, spLive |-> spLive, wp |-> wp,
     wpLive |-> wpLive, next |-> next, prev |-> prev, wthis |-> wthis,
     uaf |-> uaf, crashed |-> crashed]

\* A handle is named by the variable that holds it: <<"sp", i>>, <<"wp", i>>,
\* <<"next", k>>, <<"prev", k>>, <<"wthis", k>>.
Get(st, ref) == st[ref[1]][ref[2]]

\* The object a member handle is stored in (0 for a client variable).
Home(ref) == IF ref[1] \in {"next", "prev"} THEN ref[2]
             ELSE IF ref[1] = "wthis" /\ ref[2] \in Objects THEN ref[2]
             ELSE 0

InFreed(st, ref) == Home(ref) # 0 /\ st.obj[Home(ref)] = "dead"

Put(st, ref, h) ==
    [st EXCEPT ![ref[1]][ref[2]] = h, !.uaf = @ \/ InFreed(st, ref)]

Sat(n) == IF n >= GhostCap THEN GhostCap ELSE n + 1

\* ------------------------------------------------------------ IControlBlock
Freed(st, b) == st.blk[b].state = "destroyed"

\* Every access to block b goes through here: one that comes after Destroy()
\* is an access to freed storage, and the block remembers it in `late`.
Touch(st, b) ==
    [st EXCEPT !.uaf = @ \/ Freed(st, b), !.blk[b].late = @ \/ Freed(st, b)]

GetStrongRefsCount(st, b) == st.blk[b].strong

AddStrongRef(st, b) ==
    [Touch(st, b) EXCEPT !.blk[b].strong = (@ + 1) % CounterMod]

RemoveStrongRef(st, b) ==
    [Touch(st, b) EXCEPT !.blk[b].strong = (@ + CounterMod - 1) % CounterMod]

AddWeakRef(st, b) ==
    [Touch(st, b) EXCEPT !.blk[b].weak = (@ + 1) % CounterMod]

RemoveWeakRef(st, b) ==
    [Touch(st, b) EXCEPT !.blk[b].weak = (@ + CounterMod - 1) % CounterMod]

\* A read of a counter of a destroyed block reads freed storage: `ub` is the
\* outcome the build produces there.
IsZeroStrongOwning(st, b, ub) ==
    IF Freed(st, b) THEN ub ELSE st.blk[b].strong = 0

IsZeroWeakOwning(st, b, ub) ==
    IF Freed(st, b) THEN ub ELSE st.blk[b].weak = 0

\* delete this
Destroy(st, b) ==
    [Touch(st, b) EXCEPT
        !.blk[b].state = "destroyed",
        !.blk[b].destroyCnt = Sat(@),
        !.blk[b].destroyOk =
            @ /\ ~Freed(st, b) /\ st.blk[b].strong = 0 /\ st.blk[b].weak = 0
              /\ st.blk[b].disposeDone]

\* --------------------------------------------------------------- observers
UseCount(st, h) == IF h.cb # NullPtr THEN GetStrongRefsCount(st, h.cb) ELSE 0

Expired(st, h) == UseCount(st, h) = 0

Zeroing(st, ref) == Put(st, ref, EmptyH)

\* ---------------------------------------------------- Release and disposal
RECURSIVE SharedRelease(_, _, _)
RECURSIVE DeleteObject(_, _, _)

\* if (cblock_->IsZeroStrongOwning() && cblock_->IsZeroWeakOwning()) Destroy()
DestroyIfUnowned(st, b, ub) ==
    IF IsZeroStrongOwning(st, b, ub) /\ IsZeroWeakOwning(st, b, ub)
    THEN Destroy(st, b) ELSE Touch(st, b)

\* WeakPtr::Release
WeakRelease(st, ref, ub) ==
    IF Get(st, ref).cb = NullPtr THEN Zeroing(st, ref)
    ELSE Zeroing(DestroyIfUnowned(RemoveWeakRef(st, Get(st, ref).cb),
                                  Get(st, ref).cb, ub), ref)

\* The destructors of the members of object o, as far as T has them.
DestroyPrev(st, o, ub) ==
    IF st.T = "Node" THEN WeakRelease(st, <<"prev", o>>, ub) ELSE st

DestroyNext(st, o, ub) ==
    IF st.T = "Node" THEN SharedRelease(st, <<"next", o>>, ub) ELSE st

DestroyWeakThis(st, o, ub) ==
    IF st.T = "Esft" THEN WeakRelease(st, <<"wthis", o>>, ub) ELSE st

MarkDead(st, o) == [st EXCEPT !.obj[o] = "dead"]

\* The destructor of object o: the members are destroyed in reverse order of
\* declaration (prev, then next), the EnableSharedFromThis base last.
DeleteObject(st, o, ub) ==
    IF st.obj[o] # "alive"
    THEN [st EXCEPT !.uaf = TRUE]                      \* deleted a second time
    ELSE MarkDead(
            DestroyWeakThis(
                DestroyNext(
                    DestroyPrev([st EXCEPT !.obj[o] = "dying"], o, ub),
                    o, ub),
                o, ub),
            o)

DisposeDone(st, b) == [st EXCEPT !.blk[b].disposeDone = TRUE]

\* ControlBlockPtr::Dispose (delete ptr_) and ControlBlockHolder::Dispose
\* (std::destroy_at of the object held in storage_).
Dispose(st, b, ub) ==
    IF st.blk[b].ptr = NullPtr
    THEN DisposeDone([Touch(st, b) EXCEPT !.blk[b].disposeCnt = Sat(@)], b)
    ELSE DisposeDone(
            DeleteObject([Touch(st, b) EXCEPT !.blk[b].disposeCnt = Sat(@)],
                         st.blk[b].ptr, ub),
            b)

\* if (cblock_->IsZeroStrongOwning()) cblock_->Dispose()
DisposeIfUnowned(st, b, ub) ==
    IF IsZeroStrongOwning(st, b, ub) THEN Dispose(st, b, ub) ELSE Touch(st, b)

\* weak_this_.Expired() as the code evaluates it: on a destroyed block it
\* reads freed storage.
ExpiredRead(st, h, ub) ==
    IF h.cb # NullPtr /\ Freed(st, h.cb) THEN ub ELSE Expired(st, h)

\* The read of the counters behind handle h that Expired() makes.
ExpiredTouch(st, h) == IF h.cb = NullPtr THEN st ELSE Touch(st, h.cb)

\* Fault: a Release that never touches the self-handle.
ClearWeakThisSkipped(st, p, ub) == st

\* SharedPtr::Release, the EnableSharedFromThis part: p is ptr_.
ClearWeakThis(st, p, ub) ==
    IF st.T # "Esft" THEN st
    ELSE IF p = NullPtr THEN [st EXCEPT !.crashed = TRUE]
    ELSE IF ExpiredRead(st, st.wthis[p], ub)
         THEN [ExpiredTouch(st, st.wthis[p])
                   EXCEPT !.uaf = @ \/ (p \in Objects /\ st.obj[p] = "dead")]
         ELSE WeakRelease([st EXCEPT !.uaf = @ \/ (p \in Objects /\ st.obj[p] = "dead")],
                          <<"wthis", p>>, ub)

\* SharedPtr::Release with cblock_ = b, ptr_ = p, up to the Zeroing
ReleaseOwned(st, p, b, ub) ==
    DestroyIfUnowned(
        DisposeIfUnowned(RemoveStrongRef(ClearWeakThis(st, p, ub), b), b, ub),
        b, ub)

\* SharedPtr::Release
SharedRelease(st, ref, ub) ==
    IF Get(st, ref).cb = NullPtr THEN Zeroing(st, ref)
    ELSE Zeroing(ReleaseOwned(st, Get(st, ref).ptr, Get(st, ref).cb, ub), ref)

\* ------------------------------------------------------------ construction
\* operator new: control blocks are handed out in order, never reused.
FreeBlocks(st) == {b \in Blocks : st.blk[b].state = "free"}

NewBlock(st) == CHOOSE b \in FreeBlocks(st) : \A c \in FreeBlocks(st) : b <= c

\* ControlBlockPtr::ControlBlockPtr(T* ptr) on fresh storage b.  A non-null
\* ptr is the object the client has just allocated for it.
ControlBlockPtr(st, b, p) ==
    [st EXCEPT
        !.blk[b] = [NoBlock EXCEPT !.state = "live", !.kind = "ptr", !.ptr = p,
                                   !.strong = IF p # NullPtr THEN 1 ELSE 0],
        !.obj[b] = IF p # NullPtr THEN "alive" ELSE @]

\* Fault: a MakeShared whose object is allocated apart from the block.
ControlBlockHolderApart(st, b) == ControlBlockPtr(st, b, b)

\* ControlBlockHolder::ControlBlockHolder(args...): the object is built in
\* storage_, then AddStrongRef.
ControlBlockHolder(st, b) ==
    AddStrongRef([st EXCEPT
        !.blk[b] = [NoBlock EXCEPT !.state = "live", !.kind = "holder", !.ptr = b],
        !.obj[b] = "alive"], b)

\* The declaration of a client variable: its storage starts as the default
\* member initialisers leave it.
Declare(st, ref) ==
    IF ref[1] = "sp" THEN [st EXCEPT !.spLive = @ \cup {ref[2]}, !.sp[ref[2]] = EmptyH]
    ELSE [st EXCEPT !.wpLive = @ \cup {ref[2]}, !.wp[ref[2]] = EmptyH]

EndOfLife(st, ref) ==
    IF ref[1] = "sp" THEN [st EXCEPT !.spLive = @ \ {ref[2]}]
    ELSE [st EXCEPT !.wpLive = @ \ {ref[2]}]

\* if (cblock_ != nullptr) cblock_->AddStrongRef()
AddStrongIfOwning(st, b) == IF b # NullPtr THEN AddStrongRef(st, b) ELSE st

\* if (cblock_ != nullptr) cblock_->AddWeakRef()
AddWeakIfOwning(st, b) == IF b # NullPtr THEN AddWeakRef(st, b) ELSE st

\* Fault: a WeakPtr that takes a strong unit as well.
TakeWeakOwning(st, wref, h) == AddStrongIfOwning(AddWeakIfOwning(Put(st, wref, h), h.cb), h.cb)

\* ptr_ = other.ptr_; cblock_ = other.cblock_; AddWeakRef
TakeWeak(st, wref, h) == AddWeakIfOwning(Put(st, wref, h), h.cb)

\* WeakPtr::operator=(SharedPtr<Y>& other)
WeakAssignSharedOp(st, wref, sref, ub) ==
    TakeWeak(WeakRelease(st, wref, ub), wref, Get(st, sref))

\* `p->weak_this_ = *this` of the SharedPtr constructors (if constexpr).
RegisterWeakThis(st, p, sref, ub) ==
    IF st.T # "Esft" THEN st
    ELSE IF p = NullPtr THEN [st EXCEPT !.crashed = TRUE]
    ELSE WeakAssignSharedOp(st, <<"wthis", p>>, sref, ub)

\* SharedPtr::SharedPtr(Y* ptr) on fresh block b; p is ptr.
AdoptInto(st, a, b, p, ub) ==
    RegisterWeakThis(Put(ControlBlockPtr(Declare(st, a), b, p), a, [ptr |-> p, cb |-> b]),
                     p, a, ub)

\* SharedPtr<T> a(ptr); isNull: the client passes a null Y*.
SharedAdoptOp(st, a, isNull, ub) ==
    AdoptInto(st, a, NewBlock(st), IF isNull THEN NullPtr ELSE NewBlock(st), ub)

\* SharedPtr::SharedPtr(const SharedPtr<Y>& other)
SharedCopyOp(st, a, src, ub) ==
    RegisterWeakThis(
        AddStrongIfOwning(Put(Declare(st, a), a, Get(st, src)), Get(st, src).cb),
        Get(st, src).ptr, a, ub)

\* SharedPtr::SharedPtr(SharedPtr<Y>&& other)
SharedMoveOp(st, a, src, ub) ==
    Zeroing(RegisterWeakThis(Put(Declare(st, a), a, Get(st, src)), Get(st, src).ptr, a, ub),
            src)

\* SharedPtr::SharedPtr(ControlBlockHolder<Y>*) on the block MakeShared made
HolderInto(st, a, b, ub) ==
    RegisterWeakThis(Put(ControlBlockHolder(Declare(st, a), b), a, [ptr |-> b, cb |-> b]),
                     b, a, ub)

\* MakeShared<T>(args...)
MakeSharedOp(st, a, ub) == HolderInto(st, a, NewBlock(st), ub)

\* SharedPtr::SharedPtr(const SharedPtr<Y>& other, T* ptr), the aliasing one
SharedAliasOp(st, a, src, p) ==
    AddStrongIfOwning(Put(Declare(st, a), a, [ptr |-> p, cb |-> Get(st, src).cb]),
                      Get(st, src).cb)

\* SharedPtr::SharedPtr(const WeakPtr<T>& other), past the throw
SharedPromoteOp(st, a, wsrc) ==
    AddStrongRef(Put(Declare(st, a), a, Get(st, wsrc)), Get(st, wsrc).cb)

\* WeakPtr::Lock
LockOp(st, a, wsrc, ub) ==
    IF ExpiredRead(st, Get(st, wsrc), ub)
    THEN Declare(ExpiredTouch(st, Get(st, wsrc)), a)
    ELSE SharedPromoteOp(st, a, wsrc)

\* ----------------------------------------------------------------- assignment
\* What `other.ptr_`, `other.cblock_` yield after this->Release(): when the
\* release destroyed the object that holds `other`, the read is of freed
\* storage and yields what was there before the destructor ran or what the
\* destructor left.
ReadOther(before, after, src, ub) ==
    IF InFreed(after, src) /\ ~InFreed(before, src) /\ ub
    THEN Get(before, src)
    ELSE Get(after, src)

MarkRead(st, src) == [st EXCEPT !.uaf = @ \/ InFreed(st, src)]

\* ptr_ = other.ptr_; cblock_ = other.cblock_; AddStrongRef -- `after` is the
\* state this->Release() left.
TakeShared(before, after, dst, src, ub) ==
    AddStrongIfOwning(Put(MarkRead(after, src), dst, ReadOther(before, after, src, ub)),
                      ReadOther(before, after, src, ub).cb)

\* SharedPtr::operator=(const SharedPtr<T>& other)
SharedCopyAssignOp(st, dst, src, ub) ==
    IF dst = src THEN st
    ELSE TakeShared(st, SharedRelease(st, dst, ub), dst, src, ub)

\* ptr_ = other.ptr_; cblock_ = other.cblock_; other.Zeroing()
StealShared(before, after, dst, src, ub) ==
    Zeroing(Put(MarkRead(after, src), dst, ReadOther(before, after, src, ub)), src)

\* SharedPtr::operator=(SharedPtr<T>&& other)
SharedMoveAssignOp(st, dst, src, ub) ==
    IF dst = src THEN st
    ELSE StealShared(st, SharedRelease(st, dst, ub), dst, src, ub)

\* ptr_ = ptr; cblock_ = new ControlBlockPtr<Y>(ptr)
ResetInto(st, dst, b, p) == Put(ControlBlockPtr(st, b, p), dst, [ptr |-> p, cb |-> b])

\* SharedPtr::Reset(Y* ptr)
SharedResetPtrOp(st, dst, isNull, ub) ==
    ResetInto(SharedRelease(st, dst, ub), dst, NewBlock(st),
              IF isNull THEN NullPtr ELSE NewBlock(st))

\* SharedPtr::Swap
SharedSwapOp(st, r1, r2) == Put(Put(st, r1, Get(st, r2)), r2, Get(st, r1))

\* ------------------------------------------------------------------- WeakPtr
\* WeakPtr::WeakPtr(const WeakPtr&) and WeakPtr::WeakPtr(const SharedPtr<T>&)
WeakCopyOp(st, w, src) == TakeWeak(Declare(st, w), w, Get(st, src))

\* Fault: a move construction that counts the moved unit again.
WeakMoveCounting(st, w, src) == Zeroing(TakeWeak(Declare(st, w), w, Get(st, src)), src)

\* WeakPtr::WeakPtr(WeakPtr&& other)
WeakMoveOp(st, w, src) == Zeroing(Put(Declare(st, w), w, Get(st, src)), src)

\* WeakPtr::operator=(const WeakPtr& other)
WeakCopyAssignOp(st, dst, src, ub) ==
    IF dst = src THEN st
    ELSE TakeWeak(WeakRelease(st, dst, ub), dst, Get(st, src))

\* WeakPtr::operator=(WeakPtr&& other)
WeakMoveAssignOp(st, dst, src, ub) ==
    IF dst = src THEN st
    ELSE Zeroing(Put(WeakRelease(st, dst, ub), dst, Get(st, src)), src)

\* WeakPtr::Swap
WeakSwapOp(st, r1, r2) == Put(Put(st, r1, Get(st, r2)), r2, Get(st, r1))

\* ------------------------------------------------------ EnableSharedFromThis
\* EnableSharedFromThis::SharedFromThis: weak_this_.Lock()
SharedFromThisOp(st, a, o, ub) == LockOp(st, a, <<"wthis", o>>, ub)

\* EnableSharedFromThis::WeakFromThis: a copy of weak_this_
WeakFromThisOp(st, w, o) == WeakCopyOp(st, w, <<"wthis", o>>)

\* ------------------------------------------------------------------ client
\* The objects the client reaches through a SharedPtr variable (operator->).
Accessible(k) ==
    /\ obj[k] = "alive"
    /\ \E i \in spLive : sp[i].ptr = k

DeadShared == {<<"sp", i>> : i \in (1..NumShared) \ spLive}
DeadWeak == {<<"wp", i>> : i \in (1..NumWeak) \ wpLive}

\* The SharedPtr<T> and WeakPtr<T> lvalues the client can name.
SharedRefs ==
    {<<"sp", i>> : i \in spLive}
        \cup {<<"next", k>> : k \in {o \in Objects : T = "Node" /\ Accessible(o)}}

WeakRefs ==
    {<<"wp", i>> : i \in wpLive}
        \cup {<<"prev", k>> : k \in {o \in Objects : T = "Node" /\ Accessible(o)}}

\* The raw pointers the client passes to the aliasing constructor: the source's
\* own, and for the member-less client types also nullptr and the address of
\* a T no control block manages.
AliasPtrs(h) == IF T = "Node" THEN {h.ptr} ELSE {NullPtr, AliasObj, h.ptr}

\* No step is taken once the process has crashed or has accessed storage
\* whose lifetime ended: from there on the behaviour is undefined.
Running == ~crashed /\ ~uaf

\* The state after an operation; a null dereference ends the process where
\* it stood.
Install(r) ==
    IF r.crashed
    THEN /\ crashed' = TRUE
         /\ UNCHANGED <<T, blk, obj, sp, spLive, wp, wpLive, next, prev, wthis, uaf>>
         /\ UNCHANGED <<ip, up>>
    ELSE /\ T' = r.T
         /\ blk' = r.blk
         /\ obj' = r.obj
         /\ sp' = r.sp
         /\ spLive' = r.spLive
         /\ wp' = r.wp
         /\ wpLive' = r.wpLive
         /\ next' = r.next
         /\ prev' = r.prev
         /\ wthis' = r.wthis
         /\ uaf' = r.uaf
         /\ crashed' = FALSE
         /\ UNCHANGED <<ip, up>>

Returns(r) == Install(r) /\ thrown' = FALSE

\* intrusive.h before the client has declared anything: no IntrusivePtr, no
\* counted object.  ptr is IntrusivePtr::ptr_, cnt is SimpleCounter::count_.
IntrusiveStart ==
    [ptr |-> [i \in 1..NumIntr |-> NullPtr],
     live |-> {},
     heap |-> [o \in 1..MaxCounted |-> "none"],
     cnt |-> [o \in 1..MaxCounted |-> 0],
     del |-> [o \in 1..MaxCounted |-> 0],
     uaf |-> FALSE]

\* unique.h before the client has declared anything.  ptr and pol are the two
\* halves of UniquePtr::data_; raw are the pointers Release() handed back;
\* by, seen and del log the policy invocations per pointer.
UniqueStart ==
    [ptr |-> [i \in 1..NumUnique |-> NullPtr],
     pol |-> [i \in 1..NumUnique |-> "Default"],
     live |-> {},
     heap |-> [o \in 1..MaxOwned |-> "none"],
     raw |-> {},
     by |-> [o \in 1..MaxOwned |-> "nobody"],
     seen |-> [o \in 1..MaxOwned |-> NullPtr],
     del |-> [o \in 1..MaxOwned |-> 0]]

Init ==
    /\ ip = IntrusiveStart
    /\ up = UniqueStart
    /\ T \in Types
    /\ blk = [b \in Blocks |-> NoBlock]
    /\ obj = [o \in Objects |-> "none"]
    /\ sp = [i \in 1..NumShared |-> EmptyH]
    /\ spLive = {}
    /\ wp = [i \in 1..NumWeak |-> EmptyH]
    /\ wpLive = {}
    /\ next = [o \in Objects |-> EmptyH]
    /\ prev = [o \in Objects |-> EmptyH]
    /\ wthis = [o \in Objects \cup {AliasObj} |-> EmptyH]
    /\ uaf = FALSE
    /\ crashed = FALSE
    /\ thrown = FALSE

\* SharedPtr<T> a;  SharedPtr<T> a(nullptr);
SharedDefault(a) ==
    /\ Running
    /\ a \in DeadShared
    /\ Returns(Declare(Cur, a))

\* SharedPtr<T> a(ptr);
SharedAdopt(a, isNull, ub) ==
    /\ Running
    /\ a \in DeadShared
    /\ FreeBlocks(Cur) # {}
    /\ Returns(SharedAdoptOp(Cur, a, isNull, ub))

\* SharedPtr<T> a(src);
SharedCopy(a, src, ub) ==
    /\ Running
    /\ a \in DeadShared
    /\ src \in SharedRefs
    /\ Returns(SharedCopyOp(Cur, a, src, ub))

\* SharedPtr<T> a(std::move(src));
SharedMove(a, src, ub) ==
    /\ Running
    /\ a \in DeadShared
    /\ src \in SharedRefs
    /\ Returns(SharedMoveOp(Cur, a, src, ub))

\* SharedPtr<T> a = MakeShared<T>();
MakeShared(a, ub) ==
    /\ Running
    /\ a \in DeadShared
    /\ FreeBlocks(Cur) # {}
    /\ Returns(MakeSharedOp(Cur, a, ub))

\* SharedPtr<T> a(src, p);
SharedAlias(a, src, p) ==
    /\ Running
    /\ a \in DeadShared
    /\ src \in SharedRefs
    /\ p \in AliasPtrs(Get(Cur, src))
    /\ Returns(SharedAliasOp(Cur, a, src, p))

\* SharedPtr<T> a(w);  throws BadWeakPtr when w.Expired()
SharedPromote(a, w, ub) ==
    /\ Running
    /\ a \in DeadShared
    /\ w \in WeakRefs
    /\ IF ExpiredRead(Cur, Get(Cur, w), ub)
       THEN Install(ExpiredTouch(Cur, Get(Cur, w))) /\ thrown' = TRUE
       ELSE Returns(SharedPromoteOp(Cur, a, w))

\* SharedPtr<T> a = w.Lock();
Lock(a, w, ub) ==
    /\ Running
    /\ a \in DeadShared
    /\ w \in WeakRefs
    /\ Returns(LockOp(Cur, a, w, ub))

\* dst = src;
SharedCopyAssign(dst, src, ub) ==
    /\ Running
    /\ dst \in SharedRefs
    /\ src \in SharedRefs
    /\ Returns(SharedCopyAssignOp(Cur, dst, src, ub))

\* dst = std::move(src);
SharedMoveAssign(dst, src, ub) ==
    /\ Running
    /\ dst \in SharedRefs
    /\ src \in SharedRefs
    /\ Returns(SharedMoveAssignOp(Cur, dst, src, ub))

\* a goes out of scope: SharedPtr::~SharedPtr
SharedDtor(a, ub) ==
    /\ Running
    /\ a \in {<<"sp", i>> : i \in spLive}
    /\ Returns(EndOfLife(SharedRelease(Cur, a, ub), a))

\* dst.Reset();
SharedReset(dst, ub) ==
    /\ Running
    /\ dst \in SharedRefs
    /\ Returns(SharedRelease(Cur, dst, ub))

\* dst.Reset(ptr);
SharedResetPtr(dst, isNull, ub) ==
    /\ Running
    /\ dst \in SharedRefs
    /\ FreeBlocks(Cur) # {}
    /\ Returns(SharedResetPtrOp(Cur, dst, isNull, ub))

\* r1.Swap(r2);
SharedSwap(r1, r2) ==
    /\ Running
    /\ r1 \in SharedRefs
    /\ r2 \in SharedRefs
    /\ Returns(SharedSwapOp(Cur, r1, r2))

\* WeakPtr<T> w;
WeakDefault(w) ==
    /\ Running
    /\ w \in DeadWeak
    /\ Returns(Declare(Cur, w))

\* WeakPtr<T> w(src);  src a WeakPtr, or a SharedPtr (demotion)
WeakCopy(w, src) ==
    /\ Running
    /\ w \in DeadWeak
    /\ src \in WeakRefs \cup SharedRefs
    /\ Returns(WeakCopyOp(Cur, w, src))

\* WeakPtr<T> w(std::move(src));
WeakMove(w, src) ==
    /\ Running
    /\ w \in DeadWeak
    /\ src \in WeakRefs
    /\ Returns(WeakMoveOp(Cur, w, src))

\* dst = src;  src a WeakPtr
WeakCopyAssign(dst, src, ub) ==
    /\ Running
    /\ dst \in WeakRefs
    /\ src \in WeakRefs
    /\ Returns(WeakCopyAssignOp(Cur, dst, src, ub))

\* dst = src;  src a SharedPtr
WeakAssignShared(dst, src, ub) ==
    /\ Running
    /\ dst \in WeakRefs
    /\ src \in SharedRefs
    /\ Returns(WeakAssignSharedOp(Cur, dst, src, ub))

\* dst = std::move(src);
WeakMoveAssign(dst, src, ub) ==
    /\ Running
    /\ dst \in WeakRefs
    /\ src \in WeakRefs
    /\ Returns(WeakMoveAssignOp(Cur, dst, src, ub))

\* w goes out of scope: WeakPtr::~WeakPtr
WeakDtor(w, ub) ==
    /\ Running
    /\ w \in {<<"wp", i>> : i \in wpLive}
    /\ Returns(EndOfLife(WeakRelease(Cur, w, ub), w))

\* dst.Reset();
WeakReset(dst, ub) ==
    /\ Running
    /\ dst \in WeakRefs
    /\ Returns(WeakRelease(Cur, dst, ub))

\* r1.Swap(r2);
WeakSwap(r1, r2) ==
    /\ Running
    /\ r1 \in WeakRefs
    /\ r2 \in WeakRefs
    /\ Returns(WeakSwapOp(Cur, r1, r2))

\* SharedPtr<T> a = sp->SharedFromThis();
SharedFromThis(a, o, ub) ==
    /\ Running
    /\ T = "Esft"
    /\ a \in DeadShared
    /\ Accessible(o)
    /\ Returns(SharedFromThisOp(Cur, a, o, ub))

\* WeakPtr<T> w = sp->WeakFromThis();
WeakFromThis(w, o) ==
    /\ Running
    /\ T = "Esft"
    /\ w \in DeadWeak
    /\ Accessible(o)
    /\ Returns(WeakFromThisOp(Cur, w, o))

\* Every name a handle can have, and every raw pointer.
AllShared == {<<"sp", i>> : i \in 1..NumShared} \cup {<<"next", k>> : k \in Objects}
AllWeak == {<<"wp", i>> : i \in 1..NumWeak} \cup {<<"prev", k>> : k \in Objects}
AllPtrs == 0..AliasObj

Next ==
    \/ \E a \in AllShared : SharedDefault(a)
    \/ \E a \in AllShared, isNull \in BOOLEAN, ub \in BOOLEAN : SharedAdopt(a, isNull, ub)
    \/ \E a \in AllShared, src \in AllShared, ub \in BOOLEAN : SharedCopy(a, src, ub)
    \/ \E a \in AllShared, src \in AllShared, ub \in BOOLEAN : SharedMove(a, src, ub)
    \/ \E a \in AllShared, ub \in BOOLEAN : MakeShared(a, ub)
    \/ \E a \in AllShared, src \in AllShared, p \in AllPtrs : SharedAlias(a, src, p)
    \/ \E a \in AllShared, w \in AllWeak, ub \in BOOLEAN : SharedPromote(a, w, ub)
    \/ \E a \in AllShared, w \in AllWeak, ub \in BOOLEAN : Lock(a, w, ub)
    \/ \E dst \in AllShared, src \in AllShared, ub \in BOOLEAN : SharedCopyAssign(dst, src, ub)
    \/ \E dst \in AllShared, src \in AllShared, ub \in BOOLEAN : SharedMoveAssign(dst, src, ub)
    \/ \E a \in AllShared, ub \in BOOLEAN : SharedDtor(a, ub)
    \/ \E dst \in AllShared, ub \in BOOLEAN : SharedReset(dst, ub)
    \/ \E dst \in AllShared, isNull \in BOOLEAN, ub \in BOOLEAN : SharedResetPtr(dst, isNull, ub)
    \/ \E r1 \in AllShared, r2 \in AllShared : SharedSwap(r1, r2)
    \/ \E w \in AllWeak : WeakDefault(w)
    \/ \E w \in AllWeak, src \in AllWeak \cup AllShared : WeakCopy(w, src)
    \/ \E w \in AllWeak, src \in AllWeak : WeakMove(w, src)
    \/ \E dst \in AllWeak, src \in AllWeak, ub \in BOOLEAN : WeakCopyAssign(dst, src, ub)
    \/ \E dst \in AllWeak, src \in AllShared, ub \in BOOLEAN : WeakAssignShared(dst, src, ub)
    \/ \E dst \in AllWeak, src \in AllWeak, ub \in BOOLEAN : WeakMoveAssign(dst, src, ub)
    \/ \E w \in AllWeak, ub \in BOOLEAN : WeakDtor(w, ub)
    \/ \E dst \in AllWeak, ub \in BOOLEAN : WeakReset(dst, ub)
    \/ \E r1 \in AllWeak, r2 \in AllWeak : WeakSwap(r1, r2)
    \/ \E a \in AllShared, o \in Objects, ub \in BOOLEAN : SharedFromThis(a, o, ub)
    \/ \E w \in AllWeak, o \in Objects : WeakFromThis(w, o)

Spec == Init /\ [][Next]_vars

\* ==================================================================== claims
\* The handles that are alive: the client's constructed variables and the
\* members of the objects whose lifetime has not ended.
LiveShared ==
    {<<"sp", i>> : i \in spLive}
        \cup {<<"next", k>> : k \in {o \in Objects : T = "Node" /\ obj[o] = "alive"}}

LiveWeak ==
    {<<"wp", i>> : i \in wpLive}
        \cup {<<"prev", k>> : k \in {o \in Objects : T = "Node" /\ obj[o] = "alive"}}
        \cup {<<"wthis", k>> : k \in {o \in Objects : T = "Esft" /\ obj[o] = "alive"}}
        \cup {<<"wthis", k>> : k \in {o \in {AliasObj} : T = "Esft"}}

Owners(b) == {r \in LiveShared : Get(Cur, r).cb = b}
Observers(b) == {r \in LiveWeak : Get(Cur, r).cb = b}
Allocated(b) == blk[b].state # "free"

\* C1: in every state the program reaches while its behaviour is defined,
\* UseCount() of a SharedPtr that has a control block is the number of live
\* SharedPtr referencing that block, and UseCount() of an empty one is 0.
C1_UseCountIsOwners ==
    Running =>
        \A r \in LiveShared :
            UseCount(Cur, Get(Cur, r)) =
                IF Get(Cur, r).cb = NullPtr THEN 0
                ELSE Cardinality(Owners(Get(Cur, r).cb))

\* C2: for every control block, Dispose() has run exactly once when the
\* strong count is 0 and not at all while it is greater than 0, and never
\* twice.
C2_DisposeExactlyOnce ==
    Running =>
        \A b \in Blocks :
            Allocated(b) =>
                /\ blk[b].disposeCnt <= 1
                /\ (blk[b].strong > 0 => blk[b].disposeCnt = 0)
                /\ (blk[b].strong = 0 => blk[b].disposeCnt = 1)

\* C3: for every control block, Destroy() runs at most once, only with both
\* counts 0 and only after Dispose() has completed, and never while a live
\* WeakPtr references the block -- members of the managed object included.
C3_DestroyOnceAfterDispose ==
    \A b \in Blocks :
        /\ blk[b].destroyCnt <= 1
        /\ blk[b].destroyOk
        /\ (blk[b].state = "destroyed" => Observers(b) = {})

\* C4: a control block that no live SharedPtr and no live WeakPtr references
\* has been destroyed.
C4_NoLeak ==
    Running =>
        \A b \in Blocks :
            (Allocated(b) /\ Owners(b) = {} /\ Observers(b) = {})
                => blk[b].state = "destroyed"

\* WeakPtr::Lock() on handle value h yields an empty SharedPtr.
LockIsEmpty(h) == Expired(Cur, h)

\* C5: once no live SharedPtr references a control block, every live WeakPtr
\* on it reports Expired() and UseCount() = 0 and Lock() is empty; and a
\* block without owners never gets one again.
C5_ExpiredAfterLastOwner ==
    Running =>
        \A b \in Blocks : \A w \in Observers(b) :
            Owners(b) = {} =>
                /\ Expired(Cur, Get(Cur, w))
                /\ UseCount(Cur, Get(Cur, w)) = 0
                /\ LockIsEmpty(Get(Cur, w))

\* C6: Lock() on an expired WeakPtr gives an empty SharedPtr and changes no
\* counter; on any other it gives a SharedPtr with the WeakPtr's raw pointer
\* and control block, the strong count one higher, the weak count unchanged;
\* it never fails.
LockPost(a, w) ==
    /\ ~crashed' /\ ~thrown'
    /\ a[2] \in spLive'
    /\ IF Expired(Cur, Get(Cur, w))
       THEN sp'[a[2]] = EmptyH /\ blk' = blk
       ELSE /\ sp'[a[2]] = Get(Cur, w)
            /\ blk'[Get(Cur, w).cb].strong = blk[Get(Cur, w).cb].strong + 1
            /\ blk'[Get(Cur, w).cb].weak = blk[Get(Cur, w).cb].weak

C6_LockContract ==
    [][\A a \in AllShared, w \in AllWeak, ub \in BOOLEAN :
          Lock(a, w, ub) => LockPost(a, w)]_vars

\* C7: the promoting constructor throws exactly when the WeakPtr is expired;
\* on a throw no SharedPtr exists and no counter moved, otherwise the new
\* SharedPtr has the WeakPtr's raw pointer and control block and the strong
\* count is one higher.
PromotePost(a, w) ==
    /\ thrown' <=> Expired(Cur, Get(Cur, w))
    /\ IF thrown'
       THEN spLive' = spLive /\ blk' = blk
       ELSE /\ a[2] \in spLive'
            /\ sp'[a[2]] = Get(Cur, w)
            /\ blk'[Get(Cur, w).cb].strong = blk[Get(Cur, w).cb].strong + 1

C7_PromotionContract ==
    [][\A a \in AllShared, w \in AllWeak, ub \in BOOLEAN :
          SharedPromote(a, w, ub) => PromotePost(a, w)]_vars

\* C8: SharedPtr(Y* ptr) and Reset(Y* ptr) leave the handle on a fresh
\* pointer-adopting control block with strong count 1 and no weak count
\* but the self-reference handle's, and UseCount() = 1, for a null ptr too.
AdoptPost(r, b) ==
    /\ ~crashed'
    /\ blk'[b].state = "live" /\ blk'[b].kind = "ptr"
    /\ Get(Cur, r)'.cb = b
    /\ blk'[b].strong = 1
    /\ blk'[b].weak = Cardinality({o \in DOMAIN wthis' : wthis'[o].cb = b})
    /\ UseCount(Cur, Get(Cur, r))' = 1

C8_AdoptStartsAtOne ==
    [][\A r \in AllShared, isNull \in BOOLEAN, ub \in BOOLEAN :
          (SharedAdopt(r, isNull, ub) \/ SharedResetPtr(r, isNull, ub))
              => AdoptPost(r, NewBlock(Cur))]_vars

\* C9: after a move construction or a move assignment between two handles
\* the destination has the raw pointer and control block the source had and
\* the source is empty.
MovePost(dst, src) ==
    /\ Get(Cur, dst)' = Get(Cur, src)
    /\ Get(Cur, src)' = EmptyH

C9_MoveTransfers ==
    [][\A dst \in AllShared, src \in AllShared, ub \in BOOLEAN :
          /\ SharedMove(dst, src, ub) => (crashed' \/ MovePost(dst, src))
          /\ (SharedMoveAssign(dst, src, ub) /\ dst # src) => MovePost(dst, src)]_vars

\* C10: a live SharedPtr that observes another address than its control
\* block's object (an alias) keeps the block's strong count above 0 and the
\* block neither disposed nor destroyed.
C10_AliasKeepsAlive ==
    Running =>
        \A r \in LiveShared :
            (Get(Cur, r).cb # NullPtr /\ Get(Cur, r).ptr = AliasObj) =>
                /\ blk[Get(Cur, r).cb].strong > 0
                /\ blk[Get(Cur, r).cb].disposeCnt = 0
                /\ blk[Get(Cur, r).cb].state = "live"

\* C11: in every state the program reaches while its behaviour is defined, a
\* live SharedPtr without a control block has a null raw pointer.
C11_NoOwnerlessPointer ==
    Running =>
        \A r \in LiveShared :
            Get(Cur, r).cb = NullPtr => Get(Cur, r).ptr = NullPtr

\* The release of SharedPtr a left the self-handle of a's object alone: the
\* self-handle referenced a's control block before, the block still has a
\* strong owner afterwards, and the self-handle still references the block
\* (so that SharedFromThis(), its Lock(), is not empty).
SelfHandleKept(a) ==
    (/\ T = "Esft"
     /\ Get(Cur, a).cb # NullPtr
     /\ Get(Cur, a).ptr \in Objects
     /\ wthis[Get(Cur, a).ptr].cb = Get(Cur, a).cb
     /\ ~crashed' /\ ~uaf'
     /\ blk'[Get(Cur, a).cb].strong > 0)
        => wthis'[Get(Cur, a).ptr].cb = Get(Cur, a).cb

\* C12: destroying or resetting a SharedPtr to an object with the
\* self-reference capability clears the object's self-handle only when it was
\* the last strong owner: while the strong count stays above 0 the self-handle
\* keeps referencing the control block.
C12_SelfHandleUntilLastRelease ==
    [][\A a \in AllShared, ub \in BOOLEAN :
          (SharedDtor(a, ub) \/ SharedReset(a, ub)) => SelfHandleKept(a)]_vars

\* After the step SharedPtr dst owns an object with the self-reference
\* capability only if that object's self-handle references dst's block.
Registered(dst) ==
    (/\ T = "Esft"
     /\ ~crashed' /\ ~uaf' /\ ~thrown'
     /\ Get(Cur, dst)'.cb # NullPtr
     /\ Get(Cur, dst)'.ptr \in Objects)
        => wthis'[Get(Cur, dst)'.ptr].cb = Get(Cur, dst)'.cb

\* C13: the adopting constructor, MakeShared, copy and move construction,
\* Reset(ptr), copy and move assignment and promotion from a WeakPtr each
\* leave the self-handle of the object the SharedPtr now owns referencing the
\* SharedPtr's control block.
C13_OwnershipRegisters ==
    [][\A dst \in AllShared, src \in AllShared, w \in AllWeak,
          isNull \in BOOLEAN, ub \in BOOLEAN :
          (\/ SharedAdopt(dst, isNull, ub)
           \/ MakeShared(dst, ub)
           \/ SharedCopy(dst, src, ub)
           \/ SharedMove(dst, src, ub)
           \/ SharedResetPtr(dst, isNull, ub)
           \/ SharedCopyAssign(dst, src, ub)
           \/ SharedMoveAssign(dst, src, ub)
           \/ SharedPromote(dst, w, ub)) => Registered(dst)]_vars

\* SharedFromThis() of object o, owned through its control block by n >= 1
\* live SharedPtr, gave a SharedPtr to o on that block and made the strong
\* count n + 1.
FromThisPost(a, o) ==
    /\ ~crashed'
    /\ Get(Cur, a)' = [ptr |-> o, cb |-> o]
    /\ UseCount(Cur, Get(Cur, a))' = Cardinality(Owners(o)) + 1

\* C14: SharedFromThis() on an object that n >= 1 SharedPtr own returns a
\* SharedPtr to the same object and control block, and UseCount() is n + 1
\* afterwards.
C14_SharedFromThisCounts ==
    [][\A a \in AllShared, o \in Objects, ub \in BOOLEAN :
          (SharedFromThis(a, o, ub) /\ Cardinality(Owners(o)) >= 1)
              => FromThisPost(a, o)]_vars

\* SharedPtr a is the only live SharedPtr on a control block that manages an
\* object with the self-reference capability; a points to that object or, as
\* an alias, to another one.
LastOwner(a) ==
    /\ T = "Esft"
    /\ a \in SharedRefs
    /\ Get(Cur, a).cb # NullPtr
    /\ Get(Cur, a).ptr # NullPtr
    /\ blk[Get(Cur, a).cb].ptr \in Objects
    /\ Owners(Get(Cur, a).cb) = {a}

\* The states SharedPtr::Release of a passes through: after the self-handle
\* part, after RemoveStrongRef, after the Dispose branch, after the Destroy
\* branch.
AfterClear(a, ub) == ClearWeakThis(Cur, Get(Cur, a).ptr, ub)
AfterRemove(a, ub) == RemoveStrongRef(AfterClear(a, ub), Get(Cur, a).cb)
AfterDispose(a, ub) == DisposeIfUnowned(AfterRemove(a, ub), Get(Cur, a).cb, ub)
AfterDestroy(a, ub) == DestroyIfUnowned(AfterDispose(a, ub), Get(Cur, a).cb, ub)

ReleaseInOrder(a, ub) ==
    /\ SharedRelease(Cur, a, ub) = Zeroing(AfterDestroy(a, ub), a)
    \* first the self-handle is cleared, the object still owned and alive
    /\ AfterClear(a, ub).wthis[blk[Get(Cur, a).cb].ptr] = EmptyH
    /\ AfterClear(a, ub).blk[Get(Cur, a).cb].strong = 1
    /\ AfterClear(a, ub).obj[blk[Get(Cur, a).cb].ptr] = "alive"
    \* then the strong count reaches 0, nothing disposed yet
    /\ AfterRemove(a, ub).blk[Get(Cur, a).cb].strong = 0
    /\ AfterRemove(a, ub).blk[Get(Cur, a).cb].disposeCnt = 0
    /\ Expired(AfterRemove(a, ub), AfterRemove(a, ub).wthis[blk[Get(Cur, a).cb].ptr])
    \* then Dispose() runs, once, on a block not yet destroyed
    /\ AfterDispose(a, ub).blk[Get(Cur, a).cb].disposeCnt = 1
    /\ AfterDispose(a, ub).blk[Get(Cur, a).cb].disposeDone
    /\ AfterDispose(a, ub).blk[Get(Cur, a).cb].state = "live"
    /\ AfterDispose(a, ub).obj[blk[Get(Cur, a).cb].ptr] = "dead"
    /\ AfterDispose(a, ub).wthis[blk[Get(Cur, a).cb].ptr] = EmptyH
    \* then Destroy() runs exactly if the weak count is 0
    /\ (AfterDestroy(a, ub).blk[Get(Cur, a).cb].state = "destroyed")
           <=> (AfterDispose(a, ub).blk[Get(Cur, a).cb].weak = 0)
    /\ AfterDestroy(a, ub).blk[Get(Cur, a).cb].destroyOk
    /\ ~AfterDestroy(a, ub).uaf /\ ~AfterDestroy(a, ub).crashed

KeepsStrong(r) ==
    /\ \A b \in Blocks :
          /\ r.blk[b].strong = blk[b].strong
          /\ r.blk[b].disposeCnt = blk[b].disposeCnt
    /\ r.obj = obj

\* State r is the current state after the demotion of SharedPtr src into
\* WeakPtr w: w has src's raw pointer and control block, and that block's
\* weak count, and no other, is one higher.
Demoted(r, w, src) ==
    /\ Get(r, w) = Get(Cur, src)
    /\ \A b \in Blocks :
          r.blk[b].weak = IF b = Get(Cur, src).cb THEN blk[b].weak + 1 ELSE blk[b].weak

\* C16: construction of a WeakPtr from a SharedPtr or a WeakPtr, by copy or
\* by move, the three assignments, Reset, Swap and destruction of a WeakPtr
\* change no strong count and dispose nothing; demotion copies the
\* SharedPtr's raw pointer and control block and adds exactly 1 to the weak
\* count.
C16_WeakOpsKeepStrong ==
    Running =>
        /\ \A w \in DeadWeak :
              /\ \A src \in WeakRefs \cup SharedRefs : KeepsStrong(WeakCopyOp(Cur, w, src))
              /\ \A src \in SharedRefs : Demoted(WeakCopyOp(Cur, w, src), w, src)
              /\ \A src \in WeakRefs : KeepsStrong(WeakMoveOp(Cur, w, src))
        /\ \A dst \in WeakRefs, ub \in BOOLEAN :
              /\ \A src \in WeakRefs :
                    /\ KeepsStrong(WeakCopyAssignOp(Cur, dst, src, ub))
                    /\ KeepsStrong(WeakMoveAssignOp(Cur, dst, src, ub))
                    /\ KeepsStrong(WeakSwapOp(Cur, dst, src))
              /\ \A src \in SharedRefs : KeepsStrong(WeakAssignSharedOp(Cur, dst, src, ub))
              /\ KeepsStrong(WeakRelease(Cur, dst, ub))
              /\ KeepsStrong(EndOfLife(WeakRelease(Cur, dst, ub), dst))

\* A state after a demotion: a live WeakPtr shares the block of a live
\* SharedPtr, one strong and one weak unit, nothing disposed.
C16_Witness ==
    /\ T = "Plain" /\ Running
    /\ \E i \in wpLive, j \in spLive :
          /\ wp[i] = sp[j] /\ sp[j].ptr \in Objects
          /\ blk[sp[j].cb].strong = 1 /\ blk[sp[j].cb].weak = 1
          /\ blk[sp[j].cb].disposeCnt = 0

\* The heap allocations state st holds: every control block that operator new
\* made and Destroy() has not deleted, and every object that the client made
\* with new for a pointer-adopting block and Dispose() has not deleted.  The
\* object of an inline-holding block lives in the block's storage_.
HeapBlocks(st) == {b \in Blocks : st.blk[b].state = "live"}

HeapObjects(st) ==
    {o \in Objects : st.blk[o].kind = "ptr" /\ st.obj[o] \in {"alive", "dying"}}

Allocations(st) == Cardinality(HeapBlocks(st)) + Cardinality(HeapObjects(st))

\* State r is the current state after MakeShared into SharedPtr a: one more
\* allocation, the inline-holding block b with strong count 1, and a points
\* into it.
MadeShared(r, a, b) ==
    /\ ~r.crashed
    /\ Allocations(r) = Allocations(Cur) + 1
    /\ HeapBlocks(r) = HeapBlocks(Cur) \cup {b}
    /\ r.blk[b].kind = "holder"
    /\ r.blk[b].strong = 1
    /\ r.obj[b] = "alive"
    /\ Get(r, a) = [ptr |-> b, cb |-> b]

\* C17: MakeShared makes exactly one allocation, an inline-holding control
\* block with strong count 1 that contains the object; the disposal of the
\* object leaves that allocation in place, and it is freed by Destroy() only,
\* with both counts 0.
C17_MakeSharedOneAllocation ==
    Running =>
        /\ \A a \in DeadShared, ub \in BOOLEAN :
              FreeBlocks(Cur) # {} => MadeShared(MakeSharedOp(Cur, a, ub), a, NewBlock(Cur))
        /\ \A b \in Blocks :
              blk[b].kind = "holder" =>
                  /\ (blk[b].disposeCnt > 0 /\ blk[b].weak > 0) => b \in HeapBlocks(Cur)
                  /\ b \notin HeapBlocks(Cur) =>
                        /\ blk[b].destroyCnt = 1
                        /\ blk[b].strong = 0 /\ blk[b].weak = 0
                  /\ b \in HeapBlocks(Cur) => blk[b].destroyCnt = 0

\* A state where the object MakeShared built is disposed while a WeakPtr
\* keeps the single allocation.
C17_Witness ==
    /\ Running
    /\ \E b \in Blocks :
          /\ blk[b].kind = "holder" /\ blk[b].state = "live"
          /\ blk[b].strong = 0 /\ blk[b].weak > 0
          /\ blk[b].disposeCnt = 1 /\ obj[b] = "dead"

\* The value an unsigned counter has after it was decremented at 0.
CounterMax == CounterMod - 1

\* C18: no strong and no weak counter ever holds the maximum value, the
\* value a RemoveStrongRef() or RemoveWeakRef() at count 0 wraps around to.
C18_NoUnderflow ==
    \A b \in Blocks : blk[b].strong # CounterMax /\ blk[b].weak # CounterMax

\* The step released the strong unit dst held on block b: one owner less, and
\* if dst was the last one the object is disposed, and the block destroyed
\* exactly if no weak unit is left.
ReleasedUnit(b) ==
    /\ blk'[b].strong = blk[b].strong - 1
    /\ blk[b].strong = 1 =>
          /\ blk'[b].disposeCnt = 1
          /\ (blk'[b].state = "destroyed") <=> (blk'[b].weak = 0)

\* dst = src between two handles: dst ends with src's raw pointer and
\* control block; on different blocks dst's old block loses a unit and src's
\* gains one, on the same block the count stays and nothing is disposed.
CopyAssignPost(dst, src) ==
    IF dst = src THEN Cur' = Cur
    ELSE /\ ~crashed'
         /\ Get(Cur, dst)' = Get(Cur, src)
         /\ Get(Cur, src)' = Get(Cur, src)
         /\ (Get(Cur, dst).cb # NullPtr /\ Get(Cur, dst).cb # Get(Cur, src).cb)
               => ReleasedUnit(Get(Cur, dst).cb)
         /\ (Get(Cur, src).cb # NullPtr /\ Get(Cur, dst).cb # Get(Cur, src).cb)
               => blk'[Get(Cur, src).cb].strong = blk[Get(Cur, src).cb].strong + 1
         /\ (Get(Cur, src).cb # NullPtr /\ Get(Cur, dst).cb = Get(Cur, src).cb)
               => /\ blk'[Get(Cur, src).cb].strong = blk[Get(Cur, src).cb].strong
                  /\ blk'[Get(Cur, src).cb].disposeCnt = blk[Get(Cur, src).cb].disposeCnt

\* C19: copy assignment a = b changes nothing when a and b are the same
\* handle; otherwise a releases its previous unit (disposal and destruction
\* of the previous block included when a was its last owner), then has b's
\* raw pointer and control block with that block's strong count one higher;
\* on the same block the strong count is as before and nothing is disposed.
C19_CopyAssign ==
    [][\A dst \in AllShared, src \in AllShared, ub \in BOOLEAN :
          SharedCopyAssign(dst, src, ub) => CopyAssignPost(dst, src)]_vars

\* State r has the weak counts of the current state.
SameWeak(r) == \A b \in Blocks : r.blk[b].weak = blk[b].weak

\* State r has the weak counts of the current state but for the unit that
\* WeakPtr dst gave up.
SameWeakButReleased(r, dst) ==
    \A b \in Blocks :
        r.blk[b].weak = IF b = Get(Cur, dst).cb THEN blk[b].weak - 1 ELSE blk[b].weak

\* The weak count of every control block is the number of live WeakPtr that
\* reference it, self-handles included.
WeakCountIsObservers == \A b \in Blocks : blk[b].weak = Cardinality(Observers(b))

\* WeakPtr move construction and Swap change no weak count.
WeakMoveAndSwapKeepWeak ==
    /\ \A w \in DeadWeak, src \in WeakRefs : SameWeak(WeakMoveOp(Cur, w, src))
    /\ \A r1 \in WeakRefs, r2 \in WeakRefs : SameWeak(WeakSwapOp(Cur, r1, r2))

OwnsItsObject(a) ==
    /\ Get(Cur, a).cb # NullPtr
    /\ Get(Cur, a).ptr # NullPtr
    /\ blk[Get(Cur, a).cb].ptr = Get(Cur, a).ptr
    /\ ~Freed(Cur, Get(Cur, a).cb)

\* C21: no operation reads or modifies the counters of a control block, or
\* calls Dispose() or Destroy() on it, after Destroy() has run on that block;
\* in particular a.Reset() on an ordinary owner never accesses a's block after
\* the block's Destroy(), nor destroys it twice, also when the Dispose() it
\* triggers destroys an object whose member is the last WeakPtr to that block.
C21_ReleaseStaysOffDestroyedBlock ==
    [][\A a \in SharedRefs, ub \in BOOLEAN :
          SharedReset(a, ub) /\ OwnsItsObject(a)
              => /\ ~blk'[Get(Cur, a).cb].late
                 /\ blk'[Get(Cur, a).cb].destroyCnt <= 1]_vars

\* b is a member of the object that handle a owns: node and node->next.
MemberOfOwned(a, b) ==
    /\ a # b
    /\ OwnsItsObject(a)
    /\ Home(b) = Get(Cur, a).ptr

\* What a = b promises about b: b is read while it is alive, a ends with
\* what b held, and b's object was not disposed on the way.
AssignedFromLive(a, b, ub) ==
    /\ ~InFreed(SharedRelease(Cur, a, ub), b)
    /\ Get(Cur, a)' = Get(Cur, b)
    /\ Get(Cur, b).cb # NullPtr
          => blk'[Get(Cur, b).cb].disposeCnt = blk[Get(Cur, b).cb].disposeCnt

\* C22: copy and move assignment a = b read b's raw pointer and control block
\* only while handle b is still alive, also when b is a member of the object
\* whose owner is a; afterwards a holds what b held and the object b referred
\* to has not been disposed by the release of a's old unit.
C22_AssignReadsLiveSource ==
    [][\A a \in SharedRefs, b \in SharedRefs, ub \in BOOLEAN :
          (SharedCopyAssign(a, b, ub) \/ SharedMoveAssign(a, b, ub))
              /\ MemberOfOwned(a, b)
              => AssignedFromLive(a, b, ub)]_vars

\* =================================================================== intrusive.h
\* IntrusivePtr<T> over T : SimpleRefCounted<T>; the client has NumIntr
\* IntrusivePtr variables.  Operators take and return the value of ip.
Intr == 1..NumIntr
Counted == 1..MaxCounted

\* `new T`: objects are handed out in order and never reused.
FreshCounted(st) ==
    {o \in Counted : st.heap[o] = "none" /\ \A q \in Counted : q < o => st.heap[q] # "none"}

\* The raw pointers a client can pass: nullptr, a `new T`, or a pointer to an
\* object that is alive (obtained from Get() or kept from its `new`).
RawCounted(st) ==
    {NullPtr} \cup FreshCounted(st) \cup {o \in Counted : st.heap[o] = "alive"}

NewCounted(st, p) ==
    IF p # NullPtr /\ st.heap[p] = "none" THEN [st EXCEPT !.heap[p] = "alive"] ELSE st

\* SimpleCounter::IncRef on the counter inside object o
CounterIncRef(st, o) ==
    IF st.heap[o] = "deleted" THEN [st EXCEPT !.uaf = TRUE]
    ELSE [st EXCEPT !.cnt[o] = (@ + 1) % CounterMod]

\* SimpleCounter::DecRef
CounterDecRef(st, o) ==
    IF st.heap[o] = "deleted" THEN [st EXCEPT !.uaf = TRUE]
    ELSE [st EXCEPT !.cnt[o] = (@ + CounterMod - 1) % CounterMod]

\* SimpleCounter::RefCount
RefCount(st, o) == st.cnt[o]

\* DefaultDelete::Destroy
DefaultDeleteDestroy(st, o) ==
    [st EXCEPT !.heap[o] = "deleted", !.del[o] = Sat(@)]

\* RefCounted::IncRef
IncRef(st, o) == CounterIncRef(st, o)

\* RefCounted::DecRef
DecRef(st, o) ==
    IF ~CounterDecRef(st, o).uaf /\ RefCount(CounterDecRef(st, o), o) = 0
    THEN DefaultDeleteDestroy(CounterDecRef(st, o), o)
    ELSE CounterDecRef(st, o)

\* IntrusivePtr::Zeroing
IntrusiveZeroing(st, i) == [st EXCEPT !.ptr[i] = NullPtr]

\* IntrusivePtr::Release
IntrusiveRelease(st, i) ==
    IF st.ptr[i] # NullPtr THEN IntrusiveZeroing(DecRef(st, st.ptr[i]), i)
    ELSE IntrusiveZeroing(st, i)

\* ptr_ = p; if (ptr_ != nullptr) ptr_->IncRef();
IntrusiveTake(st, i, p) ==
    IF p # NullPtr THEN IncRef([st EXCEPT !.ptr[i] = p], p)
    ELSE [st EXCEPT !.ptr[i] = p]

IntrusiveDeclare(st, i) == [st EXCEPT !.live = @ \cup {i}, !.ptr[i] = NullPtr]

\* IntrusivePtr(T* ptr)
IntrusiveAdoptOp(st, i, p) == IntrusiveTake(IntrusiveDeclare(NewCounted(st, p), i), i, p)

\* IntrusivePtr(const IntrusivePtr& other)
IntrusiveCopyOp(st, i, j) == IntrusiveTake(IntrusiveDeclare(st, i), i, st.ptr[j])

\* IntrusivePtr(IntrusivePtr&& other)
IntrusiveMoveOp(st, i, j) == IntrusiveRelease(IntrusiveCopyOp(st, i, j), j)

\* IntrusivePtr::operator=(const IntrusivePtr& other)
IntrusiveCopyAssignOp(st, i, j) ==
    IF st.ptr[i] = st.ptr[j] THEN st
    ELSE IntrusiveTake(IntrusiveRelease(st, i), i, IntrusiveRelease(st, i).ptr[j])

\* IntrusivePtr::operator=(IntrusivePtr&& other)
IntrusiveMoveAssignOp(st, i, j) ==
    IF st.ptr[i] = st.ptr[j] THEN st
    ELSE IntrusiveRelease(IntrusiveCopyAssignOp(st, i, j), j)

\* IntrusivePtr::~IntrusivePtr
IntrusiveDtorOp(st, i) == [IntrusiveRelease(st, i) EXCEPT !.live = @ \ {i}]

\* IntrusivePtr::Reset(T* ptr)
IntrusiveResetPtrOp(st, i, p) == IntrusiveTake(IntrusiveRelease(NewCounted(st, p), i), i, p)

\* IntrusivePtr::Swap
IntrusiveSwapOp(st, i, j) == [st EXCEPT !.ptr[i] = st.ptr[j], !.ptr[j] = st.ptr[i]]

\* ------------------------------------------------------- the client's steps
IntrRunning == ~ip.uaf

IntrStep(r) == ip' = r /\ UNCHANGED sharedVars /\ UNCHANGED up

\* IntrusivePtr<T> i;
IntrusiveDefault(i) ==
    /\ IntrRunning
    /\ i \notin ip.live
    /\ IntrStep(IntrusiveDeclare(ip, i))

\* IntrusivePtr<T> i(p);
IntrusiveAdopt(i, p) ==
    /\ IntrRunning
    /\ i \notin ip.live
    /\ p \in RawCounted(ip)
    /\ IntrStep(IntrusiveAdoptOp(ip, i, p))

\* IntrusivePtr<T> i(j);
IntrusiveCopy(i, j) ==
    /\ IntrRunning
    /\ i \notin ip.live
    /\ j \in ip.live
    /\ IntrStep(IntrusiveCopyOp(ip, i, j))

\* IntrusivePtr<T> i(std::move(j));
IntrusiveMove(i, j) ==
    /\ IntrRunning
    /\ i \notin ip.live
    /\ j \in ip.live
    /\ IntrStep(IntrusiveMoveOp(ip, i, j))

\* i = j;
IntrusiveCopyAssign(i, j) ==
    /\ IntrRunning
    /\ i \in ip.live
    /\ j \in ip.live
    /\ IntrStep(IntrusiveCopyAssignOp(ip, i, j))

\* i = std::move(j);
IntrusiveMoveAssign(i, j) ==
    /\ IntrRunning
    /\ i \in ip.live
    /\ j \in ip.live
    /\ IntrStep(IntrusiveMoveAssignOp(ip, i, j))

\* i goes out of scope
IntrusiveDtor(i) ==
    /\ IntrRunning
    /\ i \in ip.live
    /\ IntrStep(IntrusiveDtorOp(ip, i))

\* i.Reset();
IntrusiveReset(i) ==
    /\ IntrRunning
    /\ i \in ip.live
    /\ IntrStep(IntrusiveRelease(ip, i))

\* i.Reset(p);
IntrusiveResetPtr(i, p) ==
    /\ IntrRunning
    /\ i \in ip.live
    /\ p \in RawCounted(ip)
    /\ IntrStep(IntrusiveResetPtrOp(ip, i, p))

\* i.Swap(j);
IntrusiveSwap(i, j) ==
    /\ IntrRunning
    /\ i \in ip.live
    /\ j \in ip.live
    /\ IntrStep(IntrusiveSwapOp(ip, i, j))

InitIntrusive == Init /\ T = "Plain"

NextIntrusive ==
    \/ \E i \in Intr : IntrusiveDefault(i)
    \/ \E i \in Intr, p \in 0..MaxCounted : IntrusiveAdopt(i, p)
    \/ \E i \in Intr, j \in Intr : IntrusiveCopy(i, j)
    \/ \E i \in Intr, j \in Intr : IntrusiveMove(i, j)
    \/ \E i \in Intr, j \in Intr : IntrusiveCopyAssign(i, j)
    \/ \E i \in Intr, j \in Intr : IntrusiveMoveAssign(i, j)
    \/ \E i \in Intr : IntrusiveDtor(i)
    \/ \E i \in Intr : IntrusiveReset(i)
    \/ \E i \in Intr, p \in 0..MaxCounted : IntrusiveResetPtr(i, p)
    \/ \E i \in Intr, j \in Intr : IntrusiveSwap(i, j)

SpecIntrusive == InitIntrusive /\ [][NextIntrusive]_vars

\* The live IntrusivePtr variables that point to object o.
IntrHolders(o) == {i \in ip.live : ip.ptr[i] = o}

\* C23: for an intrusively counted object, after any sequence of construction
\* from a raw pointer, copy, move, assignments, Reset, Reset(ptr), Swap and
\* destruction, RefCount() is the number of live IntrusivePtr pointing to the
\* object; the Deleter has run on it exactly once when the count came to 0 and
\* not before; no freed object is accessed; and a move construction never
\* brings the count to 0 (never runs the Deleter).
C23_RefCountIsHolders ==
    /\ ~ip.uaf
    /\ \A o \in Counted :
          /\ ip.heap[o] = "alive" =>
                /\ RefCount(ip, o) = Cardinality(IntrHolders(o))
                /\ ip.del[o] = 0
          /\ ip.heap[o] = "deleted" =>
                /\ IntrHolders(o) = {}
                /\ ip.del[o] = 1
    /\ \A i \in Intr \ ip.live, j \in ip.live :
          IntrusiveMoveOp(ip, i, j).del = ip.del

\* ==================================================================== unique.h
\* UniquePtr<T, Deleter> with a Deleter that has an identity: "Default" is
\* Deleter(), "Custom" an instance the client passes in.  Operators take and
\* return the value of up.
Uniq == 1..NumUnique
Owned == 1..MaxOwned
Policies == {"Default", "Custom"}

\* `new T`: objects are handed out in order and never reused.
FreshOwned(st) ==
    {o \in Owned : st.heap[o] = "none" /\ \A q \in Owned : q < o => st.heap[q] # "none"}

\* The raw pointers the client owns and may hand over: nullptr, a `new T`, or
\* a pointer that Release() handed back.
RawOwned(st) == {NullPtr} \cup FreshOwned(st) \cup st.raw

\* The client gives pointer p away.
HandOver(st, p) ==
    IF p = NullPtr THEN st
    ELSE [st EXCEPT !.heap[p] = "alive", !.raw = @ \ {p}]

\* UniquePtr::Get
UniqueGet(st, i) == st.ptr[i]

\* UniquePtr::GetDeleter
GetDeleter(st, i) == st.pol[i]

\* GetDeleter()(o), invoked by UniquePtr i: the log keeps the policy and what
\* i stored at that moment.
InvokeDeleter(st, i, o) ==
    [st EXCEPT !.heap[o] = "deleted", !.del[o] = Sat(@),
               !.by[o] = GetDeleter(st, i), !.seen[o] = UniqueGet(st, i)]

\* data_.GetFirst() = p
StoreFirst(st, i, p) == [st EXCEPT !.ptr[i] = p]

\* UniquePtr(T* ptr = nullptr), UniquePtr(T* ptr, Deleter deleter)
UniqueCtorOp(st, i, p, d) ==
    [HandOver(st, p) EXCEPT !.live = @ \cup {i}, !.ptr[i] = p, !.pol[i] = d]

\* UniquePtr::Release: the state it leaves; it returns UniqueGet(st, i)
UniqueReleaseOp(st, i) == StoreFirst(st, i, NullPtr)

\* Fault: a Reset that invokes the policy before it stores the new pointer.
UniqueResetDeleteFirst(st, i, p) ==
    IF UniqueGet(st, i) # NullPtr
    THEN StoreFirst(InvokeDeleter(st, i, UniqueGet(st, i)), i, p)
    ELSE StoreFirst(st, i, p)

\* UniquePtr::Reset(T* ptr = nullptr)
UniqueResetOp(st, i, p) ==
    IF UniqueGet(st, i) # NullPtr
    THEN InvokeDeleter(StoreFirst(st, i, p), i, UniqueGet(st, i))
    ELSE StoreFirst(st, i, p)

\* UniquePtr(UniquePtr&& other)
UniqueMoveOp(st, i, j) ==
    [UniqueReleaseOp(st, j) EXCEPT !.live = @ \cup {i}, !.ptr[i] = UniqueGet(st, j),
                                   !.pol[i] = GetDeleter(st, j)]

\* GetDeleter() = std::forward<D>(other.GetDeleter())
TakeDeleter(st, i, j) == [st EXCEPT !.pol[i] = GetDeleter(st, j)]

\* UniquePtr::operator=(UniquePtr&& other)
UniqueMoveAssignOp(st, i, j) ==
    TakeDeleter(UniqueResetOp(UniqueReleaseOp(st, j), i, UniqueGet(st, j)), i, j)

\* UniquePtr::~UniquePtr; the variable is gone afterwards
UniqueDtorOp(st, i) ==
    IF UniqueGet(st, i) # NullPtr
    THEN [InvokeDeleter(st, i, UniqueGet(st, i))
              EXCEPT !.live = @ \ {i}, !.ptr[i] = NullPtr, !.pol[i] = "Default"]
    ELSE [st EXCEPT !.live = @ \ {i}, !.ptr[i] = NullPtr, !.pol[i] = "Default"]

\* UniquePtr::Swap
UniqueSwapOp(st, i, j) ==
    [st EXCEPT !.ptr[i] = st.ptr[j], !.ptr[j] = st.ptr[i],
               !.pol[i] = st.pol[j], !.pol[j] = st.pol[i]]

\* T* r = i.Release();  the client owns r from here on
KeepReleased(st, i) ==
    IF UniqueGet(st, i) = NullPtr THEN UniqueReleaseOp(st, i)
    ELSE [UniqueReleaseOp(st, i) EXCEPT !.raw = @ \cup {UniqueGet(st, i)}]

\* ------------------------------------------------------- the client's steps
UniqStep(r) == up' = r /\ UNCHANGED sharedVars /\ UNCHANGED ip

\* UniquePtr<T, D> i(p, d);
UniqueCtor(i, p, d) ==
    /\ i \notin up.live
    /\ p \in RawOwned(up)
    /\ UniqStep(UniqueCtorOp(up, i, p, d))

\* UniquePtr<T, D> i(std::move(j));
UniqueMove(i, j) ==
    /\ i \notin up.live
    /\ j \in up.live
    /\ UniqStep(UniqueMoveOp(up, i, j))

\* i = std::move(j);
UniqueMoveAssign(i, j) ==
    /\ i \in up.live
    /\ j \in up.live
    /\ UniqStep(UniqueMoveAssignOp(up, i, j))

\* i = nullptr;
UniqueAssignNull(i) ==
    /\ i \in up.live
    /\ UniqStep(UniqueResetOp(up, i, NullPtr))

\* i goes out of scope
UniqueDtor(i) ==
    /\ i \in up.live
    /\ UniqStep(UniqueDtorOp(up, i))

\* T* r = i.Release();
UniqueRelease(i) ==
    /\ i \in up.live
    /\ UniqStep(KeepReleased(up, i))

\* i.Reset(p);
UniqueReset(i, p) ==
    /\ i \in up.live
    /\ p \in RawOwned(up)
    /\ UniqStep(UniqueResetOp(HandOver(up, p), i, p))

\* i.Swap(j);
UniqueSwap(i, j) ==
    /\ i \in up.live
    /\ j \in up.live
    /\ UniqStep(UniqueSwapOp(up, i, j))

InitUnique == Init /\ T = "Plain"

NextUnique ==
    \/ \E i \in Uniq, p \in 0..MaxOwned, d \in Policies : UniqueCtor(i, p, d)
    \/ \E i \in Uniq, j \in Uniq : UniqueMove(i, j)
    \/ \E i \in Uniq, j \in Uniq : UniqueMoveAssign(i, j)
    \/ \E i \in Uniq : UniqueAssignNull(i)
    \/ \E i \in Uniq : UniqueDtor(i)
    \/ \E i \in Uniq : UniqueRelease(i)
    \/ \E i \in Uniq, p \in 0..MaxOwned : UniqueReset(i, p)
    \/ \E i \in Uniq, j \in Uniq : UniqueSwap(i, j)

SpecUnique == InitUnique /\ [][NextUnique]_vars

\* The live UniquePtr variables that hold pointer o.
UniqueHolders(o) == {i \in up.live : up.ptr[i] = o}

\* Each pointer has at most one holder; one that is alive is either held or
\* back with the client and no policy has run on it; one that is neither has
\* had the policy invoked on it exactly once.
OneHolderOneDeletion ==
    \A o \in Owned :
        /\ Cardinality(UniqueHolders(o)) <= 1
        /\ up.heap[o] = "none" => up.del[o] = 0 /\ UniqueHolders(o) = {} /\ o \notin up.raw
        /\ up.heap[o] = "alive" =>
              /\ up.del[o] = 0
              /\ (UniqueHolders(o) = {}) <=> (o \in up.raw)
        /\ up.heap[o] = "deleted" =>
              /\ up.del[o] = 1
              /\ UniqueHolders(o) = {}
              /\ o \notin up.raw

\* Release() empties the UniquePtr and invokes no policy.
ReleaseKeepsObject ==
    \A i \in up.live :
        /\ UniqueGet(UniqueReleaseOp(up, i), i) = NullPtr
        /\ UniqueReleaseOp(up, i).del = up.del
        /\ UniqueReleaseOp(up, i).heap = up.heap

\* Reset(p) on a non-empty UniquePtr invokes the policy on the old pointer
\* once, at a moment when the UniquePtr already stores p.
ResetStoresFirst ==
    \A i \in up.live, p \in RawOwned(up) :
        UniqueGet(up, i) # NullPtr =>
            /\ UniqueGet(UniqueResetOp(HandOver(up, p), i, p), i) = p
            /\ UniqueResetOp(HandOver(up, p), i, p).del[UniqueGet(up, i)] = 1
            /\ UniqueResetOp(HandOver(up, p), i, p).seen[UniqueGet(up, i)] = p

\* i = std::move(j) on a non-empty i deletes i's old pointer with the policy
\* i had, then i has j's pointer and j's policy and j is empty.
MoveAssignOwnPolicy ==
    \A i \in up.live, j \in up.live :
        (i # j /\ UniqueGet(up, i) # NullPtr) =>
            /\ UniqueMoveAssignOp(up, i, j).del[UniqueGet(up, i)] = 1
            /\ UniqueMoveAssignOp(up, i, j).by[UniqueGet(up, i)] = GetDeleter(up, i)
            /\ UniqueGet(UniqueMoveAssignOp(up, i, j), i) = UniqueGet(up, j)
            /\ GetDeleter(UniqueMoveAssignOp(up, i, j), i) = GetDeleter(up, j)
            /\ UniqueGet(UniqueMoveAssignOp(up, i, j), j) = NullPtr

\* C24: for UniquePtr, after any sequence of construction, move construction,
\* move assignment, Release, Reset(ptr), Swap and destruction, each non-null
\* raw pointer is held by at most one UniquePtr and the deletion policy has
\* been invoked exactly once on every pointer that was adopted and is neither
\* held nor handed back by Release(); Release() empties without invoking the
\* policy, Reset(ptr) stores the new pointer before invoking the policy on
\* the old one, and move assignment deletes the target's old pointer with the
\* target's own policy before taking the source's.
C24_UniqueOwnership ==
    /\ OneHolderOneDeletion
    /\ ReleaseKeepsObject
    /\ ResetStoresFirst
    /\ MoveAssignOwnPolicy

\* A pointer was deleted by a move assignment or Reset(ptr) with the target's
\* former policy while the target already stored its successor, which it now
\* holds under another policy; a third pointer is back with the client.
C24_Witness ==
    \E o \in Owned, q \in Owned, r \in Owned, i \in up.live :
        /\ up.heap[o] = "deleted"
        /\ up.seen[o] = q
        /\ q # o
        /\ UniqueGet(up, i) = q
        /\ up.by[o] # GetDeleter(up, i)
        /\ r \in up.raw

====
